---- MODULE Spec2Model ----
(***************************************************************************)
(* RC5 block cipher of cyphersnake/rc5_impl: word arithmetic (word.rs),    *)
(* key schedule (key.rs), block round function and block codec (block.rs)  *)
(* and the facade (lib.rs).                                                *)
(*                                                                         *)
(* Words are modelled as naturals below 2^w.  The widths modelled are 8    *)
(* and 16 bits: every intermediate value of the arithmetic then stays      *)
(* inside the range of the model checker's integers.                       *)
(* A panic of the Rust code (index out of range, remainder by zero) is     *)
(* the status "panic".                                                     *)
(***************************************************************************)
EXTENDS Integers, Sequences, FiniteSets, TLC

VARIABLES
    w,            \* W::BITS of the running call
    round_count,  \* Rc5Settings::rounds_count
    key,          \* Key::secret(), with Key::SIZE_HINT = Len(key)
    \* ---- block codec (block.rs process_blocks, lib.rs facade)
    op,           \* processor of the call: "encode", "decode", "swap"
    pc,           \* "idle", "check", "blocks", "ok", "err", "panic"
    input,        \* the byte buffer given to process_blocks
    output,       \* the accumulator `result` of try_fold
    pos,          \* number of two-word chunks already taken from the iterator
    mixinRuns,    \* number of executions of key.mixin in the running call
    plaintext,    \* buffer that was encoded, when the call decodes its result
    roundtrip,    \* TRUE when the call decodes the result of an encode call
    \* ---- key schedule (key.rs mixin, locals of the function)
    kpc,          \* "start", "collected", "expand", "loop", "returned", "panic"
    mixed_key,    \* S
    key_words,    \* L
    a, b, i, j,   \* accumulators and indices of the mixing loop
    iter,         \* iterations of the mixing loop completed
    index_secret, \* loop variable of expand_key_to_words
    \* ---- block round function (block.rs rc5_encode / rc5_decode)
    bpc,          \* "start", "encoded", "decoded"
    block,        \* the block given to rc5_encode
    key_table,    \* the table given to rc5_encode / rc5_decode
    cipher_block, \* result of rc5_encode
    plain_block,  \* result of rc5_decode
    \* ---- word rotation (word.rs RotateWordLeft / RotateWordRight)
    rpc,           \* "start", "left", "right", "back"
    word,          \* self of the rotation
    amount,        \* n, the rotation amount given as a word
    rotated_left,  \* word.rotate_word_left(amount)
    rotated_right, \* word.rotate_word_right(amount)
    restored,      \* rotated_left.rotate_word_right(amount)
    \* ---- pseudo-random key sequence (word.rs PresudoRandomKeySequenceIterator)
    next,          \* the field `next` of the iterator in use
    emitted,       \* values the iterator in use has returned, in order
    previous       \* values returned by the iterator used before it

codecVars == <<op, pc, input, output, pos, mixinRuns, plaintext, roundtrip>>
keyVars   == <<kpc, mixed_key, key_words, a, b, i, j, iter, index_secret>>
blockVars == <<bpc, block, key_table, cipher_block, plain_block>>
wordVars  == <<rpc, word, amount, rotated_left, rotated_right, restored>>
seqVars   == <<next, emitted, previous>>
vars == <<w, round_count, key, codecVars, keyVars, blockVars, wordVars, seqVars>>

----------------------------------------------------------------------------
(* Bounds of the model *)

MaxRounds == 2      \* round counts 0..MaxRounds
MaxKeyLen == 3      \* key byte lengths 0..MaxKeyLen (and the 128-byte test key)
MaxInputLen == 4    \* buffer byte lengths 0..MaxInputLen
MaxEmitted == 8     \* values taken from one pseudo-random sequence iterator

Widths == {8, 16}
KeyBytes == {1, 255}
InputBytes == {240, 255}

Max(x, y) == IF x >= y THEN x ELSE y

RECURSIVE SeqsOfLen(_, _)
SeqsOfLen(S, n) ==
    IF n = 0 THEN {<<>>}
    ELSE {Append(s, x) : s \in SeqsOfLen(S, n - 1), x \in S}

SeqsUpTo(S, n) == UNION {SeqsOfLen(S, k) : k \in 0..n}

\* key.rs tests: key = (0..128).collect()
TestKey == [k \in 1..128 |-> k - 1]

Keys == SeqsUpTo(KeyBytes, MaxKeyLen)
Inputs == SeqsUpTo(InputBytes, MaxInputLen)

----------------------------------------------------------------------------
(* Word arithmetic, word.rs *)

BYTES(wd) == wd \div 8

Modulus(wd) == 2 ^ wd

P(wd) == CASE wd = 8 -> 183 [] wd = 16 -> 47073

Q(wd) == CASE wd = 8 -> 159 [] wd = 16 -> 40503

wrapping_add(x, y, wd) == (x + y) % Modulus(wd)

wrapping_sub(x, y, wd) == (x + Modulus(wd) - y) % Modulus(wd)

RECURSIVE bitxor(_, _)
bitxor(x, y) ==
    IF x = 0 THEN y
    ELSE IF y = 0 THEN x
    ELSE ((x + y) % 2) + 2 * bitxor(x \div 2, y \div 2)

\* PrimInt::rotate_left(n) with 0 <= n < BITS
rotate_left(x, n, wd) ==
    (x % (2 ^ (wd - n))) * (2 ^ n) + (x \div (2 ^ (wd - n)))

\* PrimInt::rotate_right(n) with 0 <= n < BITS
rotate_right(x, n, wd) ==
    (x % (2 ^ n)) * (2 ^ (wd - n)) + (x \div (2 ^ n))

\* faulty variant: the amount is reduced modulo the byte count of the word
rotate_word_left_mod_bytes(x, n, wd) == rotate_left(x, n % BYTES(wd), wd)

rotate_word_left(x, n, wd) == rotate_left(x, n % wd, wd)

rotate_word_right(x, n, wd) == rotate_right(x, n % wd, wd)

RECURSIVE from_le_bytes(_)
from_le_bytes(bytes) ==
    IF bytes = <<>> THEN 0
    ELSE Head(bytes) + 256 * from_le_bytes(Tail(bytes))

into_le_bytes(x, wd) == [k \in 1..BYTES(wd) |-> (x \div (256 ^ (k - 1))) % 256]

\* Iterator::next of PresudoRandomKeySequenceIterator: the value emitted
\* after `n` earlier calls on a default() iterator
RECURSIVE sequence_next(_, _)
sequence_next(n, wd) ==
    IF n = 0 THEN P(wd)
    ELSE wrapping_add(sequence_next(n - 1, wd), Q(wd), wd)

\* faulty variant: take() is given 2 * rounds_count + 1
collect_for_rounds_count_short(r, wd) ==
    [k \in 1..(2 * r + 1) |-> sequence_next(k - 1, wd)]

collect_for_rounds_count(r, wd) ==
    [k \in 1..(2 * (r + 1)) |-> sequence_next(k - 1, wd)]

----------------------------------------------------------------------------
(* Key schedule, key.rs.  Sequences are 1-based: Rust's v[n] is v[n + 1]. *)

\* the locals of expand_key_to_words when its loop is entered
expand_locals(secret, wd) ==
    [status |-> "ok",
     words |-> [k \in 1..(Max(Len(secret), 1) \div BYTES(wd)) |-> 0],
     index_secret |-> Len(secret) - 1]

\* faulty variant: the byte is added before the word is rotated
expand_step_add_then_rotate(st, secret, wd) ==
    LET word_index == st.index_secret \div BYTES(wd) IN
    IF word_index >= Len(st.words)
    THEN [st EXCEPT !.status = "panic"]
    ELSE [status |-> "ok",
          words |-> [st.words EXCEPT ![word_index + 1] =
                        rotate_word_left(wrapping_add(st.words[word_index + 1],
                                                      secret[st.index_secret + 1], wd),
                                         8, wd)],
          index_secret |-> st.index_secret - 1]

\* one iteration of the loop of expand_key_to_words, for st.index_secret >= 0
expand_step(st, secret, wd) ==
    LET word_index == st.index_secret \div BYTES(wd) IN
    IF word_index >= Len(st.words)
    THEN [st EXCEPT !.status = "panic"]
    ELSE [status |-> "ok",
          words |-> [st.words EXCEPT ![word_index + 1] =
                        wrapping_add(rotate_word_left(st.words[word_index + 1], 8, wd),
                                     secret[st.index_secret + 1], wd)],
          index_secret |-> st.index_secret - 1]

RECURSIVE expand_loop(_, _, _)
expand_loop(st, secret, wd) ==
    IF st.status = "panic" \/ st.index_secret < 0 THEN st
    ELSE expand_loop(expand_step(st, secret, wd), secret, wd)

\* expand_key_to_words: [status, words]
expand_key_to_words(secret, wd) == expand_loop(expand_locals(secret, wd), secret, wd)

\* number of iterations of the mixing loop
mixin_iterations(S, L) == 3 * Max(Len(S), Len(L))

\* faulty variant: L[j] is rotated by A instead of A + B
mixin_step_rotate_by_a(st, wd) ==
    LET a1 == rotate_left(
                 wrapping_add(wrapping_add(st.mixed_key[st.i + 1], st.a, wd), st.b, wd),
                 3, wd)
        S1 == [st.mixed_key EXCEPT ![st.i + 1] = a1]
    IN IF st.j >= Len(st.key_words)
       THEN [st EXCEPT !.status = "panic", !.a = a1, !.mixed_key = S1]
       ELSE LET b1 == rotate_word_left(
                         wrapping_add(wrapping_add(st.key_words[st.j + 1], a1, wd), st.b, wd),
                         a1, wd)
                L1 == [st.key_words EXCEPT ![st.j + 1] = b1]
            IN [status |-> "ok", mixed_key |-> S1, key_words |-> L1,
                a |-> a1, b |-> b1,
                i |-> (st.i + 1) % Len(S1), j |-> (st.j + 1) % Len(L1),
                iter |-> st.iter + 1]

\* one iteration of the loop of mixin on the locals st
mixin_step(st, wd) ==
    LET a1 == rotate_left(
                 wrapping_add(wrapping_add(st.mixed_key[st.i + 1], st.a, wd), st.b, wd),
                 3, wd)
        S1 == [st.mixed_key EXCEPT ![st.i + 1] = a1]
    IN IF st.j >= Len(st.key_words)
       THEN [st EXCEPT !.status = "panic", !.a = a1, !.mixed_key = S1]
       ELSE LET b1 == rotate_word_left(
                         wrapping_add(wrapping_add(st.key_words[st.j + 1], a1, wd), st.b, wd),
                         wrapping_add(a1, st.b, wd), wd)
                L1 == [st.key_words EXCEPT ![st.j + 1] = b1]
            IN [status |-> "ok", mixed_key |-> S1, key_words |-> L1,
                a |-> a1, b |-> b1,
                i |-> (st.i + 1) % Len(S1), j |-> (st.j + 1) % Len(L1),
                iter |-> st.iter + 1]

\* the locals of mixin when its loop is entered
mixin_locals(S, L) ==
    [status |-> "ok", mixed_key |-> S, key_words |-> L,
     a |-> 0, b |-> 0, i |-> 0, j |-> 0, iter |-> 0]

RECURSIVE mixin_loop(_, _)
mixin_loop(st, wd) ==
    IF st.status = "panic" THEN st
    ELSE IF st.iter >= mixin_iterations(st.mixed_key, st.key_words) THEN st
    ELSE mixin_loop(mixin_step(st, wd), wd)

\* MixinKey::mixin: [status, table]
mixin(secret, r, wd) ==
    LET S == collect_for_rounds_count(r, wd)
        e == expand_key_to_words(secret, wd)
    IN IF e.status = "panic" THEN [status |-> "panic", table |-> <<>>]
       ELSE LET st == mixin_loop(mixin_locals(S, e.words), wd)
            IN [status |-> st.status,
                table |-> IF st.status = "ok" THEN st.mixed_key ELSE <<>>]

----------------------------------------------------------------------------
(* Block round function, block.rs *)

\* faulty variant: B is mixed with the A of the round before
rc5_encode_round_stale_a(blk, S, index, wd) ==
    LET a1 == wrapping_add(rotate_word_left(bitxor(blk[1], blk[2]), blk[2], wd),
                           S[2 * index + 1], wd)
        b1 == wrapping_add(rotate_word_left(bitxor(blk[2], blk[1]), blk[1], wd),
                           S[2 * index + 2], wd)
    IN <<a1, b1>>

\* body of the loop of rc5_encode
rc5_encode_round(blk, S, index, wd) ==
    LET a1 == wrapping_add(rotate_word_left(bitxor(blk[1], blk[2]), blk[2], wd),
                           S[2 * index + 1], wd)
        b1 == wrapping_add(rotate_word_left(bitxor(blk[2], a1), a1, wd),
                           S[2 * index + 2], wd)
    IN <<a1, b1>>

RECURSIVE rc5_encode_loop(_, _, _, _, _)
rc5_encode_loop(blk, S, index, r, wd) ==
    IF index > r THEN blk
    ELSE rc5_encode_loop(rc5_encode_round(blk, S, index, wd), S, index + 1, r, wd)

rc5_encode(blk, S, r, wd) ==
    rc5_encode_loop(<<wrapping_add(blk[1], S[1], wd), wrapping_add(blk[2], S[2], wd)>>,
                    S, 1, r, wd)

\* faulty variant: A is unmixed with the B of the round after
rc5_decode_round_stale_b(blk, S, index, wd) ==
    LET b1 == bitxor(rotate_word_right(wrapping_sub(blk[2], S[2 * index + 2], wd),
                                       blk[1], wd),
                     blk[1])
        a1 == bitxor(rotate_word_right(wrapping_sub(blk[1], S[2 * index + 1], wd),
                                       blk[2], wd),
                     blk[2])
    IN <<a1, b1>>

\* body of the loop of rc5_decode
rc5_decode_round(blk, S, index, wd) ==
    LET b1 == bitxor(rotate_word_right(wrapping_sub(blk[2], S[2 * index + 2], wd),
                                       blk[1], wd),
                     blk[1])
        a1 == bitxor(rotate_word_right(wrapping_sub(blk[1], S[2 * index + 1], wd),
                                       b1, wd),
                     b1)
    IN <<a1, b1>>

RECURSIVE rc5_decode_loop(_, _, _, _)
rc5_decode_loop(blk, S, index, wd) ==
    IF index < 1 THEN blk
    ELSE rc5_decode_loop(rc5_decode_round(blk, S, index, wd), S, index - 1, wd)

rc5_decode(blk, S, r, wd) ==
    LET ab == rc5_decode_loop(blk, S, r, wd)
    IN <<wrapping_sub(ab[1], S[1], wd), wrapping_sub(ab[2], S[2], wd)>>

----------------------------------------------------------------------------
(* Block codec, block.rs *)

\* the closure given to process_blocks: by encode_as_blocks ("encode"), by
\* decode_as_blocks ("decode"), by test_process_blocks ("swap").
\* The first two call key.mixin inside the closure.
processor(kind, blk, secret, r, wd) ==
    IF kind = "swap" THEN [status |-> "ok", block |-> <<blk[2], blk[1]>>]
    ELSE LET m == mixin(secret, r, wd) IN
         IF m.status = "panic" THEN [status |-> "panic", block |-> blk]
         ELSE [status |-> "ok",
               block |-> IF kind = "encode" THEN rc5_encode(blk, m.table, r, wd)
                         ELSE rc5_decode(blk, m.table, r, wd)]

\* executions of key.mixin in one call of the closure
processor_mixins(kind) == IF kind = "swap" THEN 0 ELSE 1

\* input.chunks(W::BYTES).map(W::from_le_bytes): word n (from 0) of the buffer
word_at(buf, n, wd) ==
    from_le_bytes(SubSeq(buf, n * BYTES(wd) + 1, (n + 1) * BYTES(wd)))

\* faulty variant: the length test is left out
length_ok_unchecked(buf, wd) == TRUE

\* block.rs 54: the buffer passes the test input.len() % W::BYTES != 0
length_ok(buf, wd) == Len(buf) % BYTES(wd) = 0

\* number of chunks of input.chunks(W::BYTES), for a length that W::BYTES divides
words_count(buf, wd) == Len(buf) \div BYTES(wd)

\* faulty variant: the two words of a block are appended in the wrong order
fold_block_swapped(result, blk, wd) ==
    result \o into_le_bytes(blk[2], wd) \o into_le_bytes(blk[1], wd)

\* the closure of try_fold: result.append(block.0), result.append(block.1)
fold_block(result, blk, wd) ==
    result \o into_le_bytes(blk[1], wd) \o into_le_bytes(blk[2], wd)

IdleCodec ==
    /\ op = "none" /\ pc = "idle" /\ input = <<>> /\ output = <<>>
    /\ pos = 0 /\ mixinRuns = 0 /\ plaintext = <<>> /\ roundtrip = FALSE

IdleKey ==
    /\ kpc = "idle" /\ mixed_key = <<>> /\ key_words = <<>>
    /\ a = 0 /\ b = 0 /\ i = 0 /\ j = 0 /\ iter = 0 /\ index_secret = 0

IdleBlock ==
    /\ bpc = "idle" /\ block = <<0, 0>> /\ key_table = <<>>
    /\ cipher_block = <<0, 0>> /\ plain_block = <<0, 0>>

IdleWord ==
    /\ rpc = "idle" /\ word = 0 /\ amount = 0
    /\ rotated_left = 0 /\ rotated_right = 0 /\ restored = 0

IdleSequence == next = 0 /\ emitted = <<>> /\ previous = <<>>

\* the caller's parameters: word width, settings, key
Init ==
    /\ w \in Widths
    /\ round_count \in 0..MaxRounds
    /\ key \in Keys
    /\ IdleCodec /\ IdleKey /\ IdleBlock /\ IdleWord /\ IdleSequence

\* entry of process_blocks with the given closure and buffer
enter_process_blocks(kind, buf) ==
    /\ op' = kind
    /\ input' = buf
    /\ output' = <<>>
    /\ pos' = 0
    /\ mixinRuns' = 0
    /\ pc' = "check"

\* lib.rs EncodeRc5::encode_rc5_with_settings -> encode_as_blocks
encode_rc5_with_settings ==
    /\ pc = "idle"
    /\ \E buf \in Inputs : enter_process_blocks("encode", buf)
    /\ plaintext' = <<>> /\ roundtrip' = FALSE
    /\ UNCHANGED <<w, round_count, key, keyVars, blockVars, wordVars, seqVars>>

\* lib.rs DecodeRc5::decode_rc5_with_settings -> decode_as_blocks
decode_rc5_with_settings ==
    /\ pc = "idle"
    /\ \E buf \in Inputs : enter_process_blocks("decode", buf)
    /\ plaintext' = <<>> /\ roundtrip' = FALSE
    /\ UNCHANGED <<w, round_count, key, keyVars, blockVars, wordVars, seqVars>>

\* decode_rc5_with_settings on the result of a finished encode call, same
\* key and settings
decode_encoded ==
    /\ pc = "ok" /\ op = "encode" /\ ~roundtrip
    /\ enter_process_blocks("decode", output)
    /\ plaintext' = input /\ roundtrip' = TRUE
    /\ UNCHANGED <<w, round_count, key, keyVars, blockVars, wordVars, seqVars>>

\* block.rs test_process_blocks: process_blocks with the closure (w1, w2) -> (w2, w1)
process_blocks_swap ==
    /\ pc = "idle"
    /\ \E buf \in Inputs : enter_process_blocks("swap", buf)
    /\ plaintext' = <<>> /\ roundtrip' = FALSE
    /\ UNCHANGED <<w, round_count, key, keyVars, blockVars, wordVars, seqVars>>

\* block.rs 54-56: input.len() % W::BYTES != 0
process_blocks_check ==
    /\ pc = "check"
    /\ pc' = IF ~length_ok(input, w) THEN "err" ELSE "blocks"
    /\ UNCHANGED <<w, round_count, key, op, input, output, pos, mixinRuns,
                   plaintext, roundtrip, keyVars, blockVars, wordVars, seqVars>>

\* block.rs 63-72: the next chunk of two words goes through the closure and
\* is folded into the result; a chunk of one word ends the call with Err
process_blocks_next ==
    /\ pc = "blocks"
    /\ 2 * pos < words_count(input, w)
    /\ IF 2 * pos + 1 >= words_count(input, w)
       THEN /\ pc' = "err"
            /\ output' = <<>>
            /\ UNCHANGED <<pos, mixinRuns>>
       ELSE LET blk == <<word_at(input, 2 * pos, w), word_at(input, 2 * pos + 1, w)>>
                res == processor(op, blk, key, round_count, w)
            IN /\ mixinRuns' = mixinRuns + processor_mixins(op)
               /\ pos' = pos + 1
               /\ IF res.status = "panic"
                  THEN pc' = "panic" /\ output' = <<>>
                  ELSE pc' = "blocks" /\ output' = fold_block(output, res.block, w)
    /\ UNCHANGED <<w, round_count, key, op, input, plaintext, roundtrip,
                   keyVars, blockVars, wordVars, seqVars>>

\* block.rs 67-72: the iterator is exhausted, try_fold returns Ok(result)
process_blocks_return ==
    /\ pc = "blocks"
    /\ 2 * pos >= words_count(input, w)
    /\ pc' = "ok"
    /\ UNCHANGED <<w, round_count, key, op, input, output, pos, mixinRuns,
                   plaintext, roundtrip, keyVars, blockVars, wordVars, seqVars>>

Next ==
    \/ encode_rc5_with_settings
    \/ decode_rc5_with_settings
    \/ decode_encoded
    \/ process_blocks_swap
    \/ process_blocks_check
    \/ process_blocks_next
    \/ process_blocks_return

Spec == Init /\ [][Next]_vars

----------------------------------------------------------------------------
(* The key schedule, statement by statement: key.rs mixin and              *)
(* expand_key_to_words run on one (key, width, round count).               *)

InitKey ==
    /\ w \in Widths
    /\ round_count \in 0..MaxRounds
    /\ key \in Keys \cup {TestKey}
    /\ kpc = "start" /\ mixed_key = <<>> /\ key_words = <<>>
    /\ a = 0 /\ b = 0 /\ i = 0 /\ j = 0 /\ iter = 0 /\ index_secret = 0
    /\ IdleCodec /\ IdleBlock /\ IdleWord /\ IdleSequence

\* key.rs 39-40: mixed_key = collect_for_rounds_count(rounds_count)
mixin_collect ==
    /\ kpc = "start"
    /\ mixed_key' = collect_for_rounds_count(round_count, w)
    /\ kpc' = "collected"
    /\ UNCHANGED <<w, round_count, key, key_words, a, b, i, j, iter, index_secret,
                   codecVars, blockVars, wordVars, seqVars>>

\* key.rs 20-21: expand_key_to_words allocates `words`
expand_enter ==
    /\ kpc = "collected"
    /\ LET st == expand_locals(key, w)
       IN key_words' = st.words /\ index_secret' = st.index_secret
    /\ kpc' = "expand"
    /\ UNCHANGED <<w, round_count, key, mixed_key, a, b, i, j, iter,
                   codecVars, blockVars, wordVars, seqVars>>

\* key.rs 23-29: one iteration of the loop over the key bytes
expand_next ==
    /\ kpc = "expand"
    /\ index_secret >= 0
    /\ LET st == expand_step([status |-> "ok", words |-> key_words,
                              index_secret |-> index_secret], key, w)
       IN /\ key_words' = st.words
          /\ index_secret' = st.index_secret
          /\ kpc' = IF st.status = "panic" THEN "panic" ELSE "expand"
    /\ UNCHANGED <<w, round_count, key, mixed_key, a, b, i, j, iter,
                   codecVars, blockVars, wordVars, seqVars>>

\* key.rs 31, 41-44: expand_key_to_words returns, mixin initialises a, b, i, j
expand_return ==
    /\ kpc = "expand"
    /\ index_secret < 0
    /\ a' = 0 /\ b' = 0 /\ i' = 0 /\ j' = 0 /\ iter' = 0
    /\ kpc' = "loop"
    /\ UNCHANGED <<w, round_count, key, mixed_key, key_words, index_secret,
                   codecVars, blockVars, wordVars, seqVars>>

\* key.rs 46-61: one iteration of the mixing loop
mixin_next ==
    /\ kpc = "loop"
    /\ iter < mixin_iterations(mixed_key, key_words)
    /\ LET st == mixin_step([status |-> "ok", mixed_key |-> mixed_key,
                             key_words |-> key_words, a |-> a, b |-> b,
                             i |-> i, j |-> j, iter |-> iter], w)
       IN /\ mixed_key' = st.mixed_key
          /\ key_words' = st.key_words
          /\ a' = st.a /\ b' = st.b /\ i' = st.i /\ j' = st.j
          /\ iter' = st.iter
          /\ kpc' = IF st.status = "panic" THEN "panic" ELSE "loop"
    /\ UNCHANGED <<w, round_count, key, index_secret, codecVars, blockVars, wordVars, seqVars>>

\* key.rs 63: mixin returns mixed_key
mixin_return ==
    /\ kpc = "loop"
    /\ iter >= mixin_iterations(mixed_key, key_words)
    /\ kpc' = "returned"
    /\ UNCHANGED <<w, round_count, key, mixed_key, key_words, a, b, i, j, iter,
                   index_secret, codecVars, blockVars, wordVars, seqVars>>

NextKey ==
    \/ mixin_collect
    \/ expand_enter
    \/ expand_next
    \/ expand_return
    \/ mixin_next
    \/ mixin_return

SpecKey == InitKey /\ [][NextKey]_vars

----------------------------------------------------------------------------
(* The block round function on one block and one table: block.rs           *)
(* rc5_encode, then rc5_decode on its result.                              *)

BlockWords(wd) == {0, 1, 10, Modulus(wd) - 1}

TableWords(wd) == {1, Modulus(wd) - 1}

\* block.rs tests: the table [0x00, 0x01, 0x02, 0x03], for any round count
RampTable(r) == [k \in 1..(2 * r + 2) |-> k - 1]

Tables(r, wd) == SeqsOfLen(TableWords(wd), 2 * r + 2) \cup {RampTable(r)}

InitBlock ==
    /\ w \in Widths
    /\ round_count \in 0..MaxRounds
    /\ key = <<>>
    /\ key_table \in Tables(round_count, w)
    /\ block \in BlockWords(w) \X BlockWords(w)
    /\ bpc = "start" /\ cipher_block = <<0, 0>> /\ plain_block = <<0, 0>>
    /\ IdleCodec /\ IdleKey /\ IdleWord /\ IdleSequence

encode_block ==
    /\ bpc = "start"
    /\ cipher_block' = rc5_encode(block, key_table, round_count, w)
    /\ bpc' = "encoded"
    /\ UNCHANGED <<w, round_count, key, block, key_table, plain_block,
                   codecVars, keyVars, wordVars, seqVars>>

decode_block ==
    /\ bpc = "encoded"
    /\ plain_block' = rc5_decode(cipher_block, key_table, round_count, w)
    /\ bpc' = "decoded"
    /\ UNCHANGED <<w, round_count, key, block, key_table, cipher_block,
                   codecVars, keyVars, wordVars, seqVars>>

NextBlock == encode_block \/ decode_block

SpecBlock == InitBlock /\ [][NextBlock]_vars

----------------------------------------------------------------------------
(* Properties of the block codec, checked under Spec *)

\* the bytes of block k (from 0) of a buffer
BlockBytes(buf, k, wd) == SubSeq(buf, 2 * k * BYTES(wd) + 1, 2 * (k + 1) * BYTES(wd))

\* the buffer cannot be split into whole two-word blocks
WrongSize(buf, wd) ==
    \/ Len(buf) % BYTES(wd) # 0
    \/ (Len(buf) \div BYTES(wd)) % 2 = 1

\* the key is made of whole words: at least one, or none for one-byte words
WholeWordKey == Len(key) % BYTES(w) = 0 /\ Max(Len(key), 1) >= BYTES(w)

Terminated == pc \in {"ok", "err", "panic"}

\* C1: for every width, round count, key length and plaintext whose length is
\* a positive multiple of 2 * (w / 8), encoding succeeds, and decoding the
\* result with the same key and round count succeeds and returns the plaintext.
C1_RoundTrip ==
    /\ (op = "encode" /\ Len(input) > 0 /\ ~WrongSize(input, w))
          => pc \notin {"err", "panic"}
    /\ (roundtrip /\ Len(plaintext) > 0)
          => /\ pc \notin {"err", "panic"}
             /\ pc = "ok" => output = plaintext

\* C2: with a valid key a call ends in WrongInputSize exactly when the buffer
\* length is not a multiple of w / 8 or the number of words is odd; every
\* other buffer, the empty one included, ends in success.
C2_InputValidation ==
    (Terminated /\ (op = "swap" \/ WholeWordKey))
        => /\ (pc = "err") <=> WrongSize(input, w)
           /\ ~WrongSize(input, w) => pc = "ok"

C2_Witness ==
    /\ pc = "err" /\ op = "encode" /\ WholeWordKey
    /\ length_ok(input, w) /\ WrongSize(input, w)

C2_WitnessEmpty == pc = "ok" /\ op = "decode" /\ WholeWordKey /\ input = <<>>

\* C5: a finished encode or decode call over n >= 1 blocks has executed the
\* key schedule (mixin) exactly once.
C5_KeyScheduleOnce ==
    (pc = "ok" /\ op \in {"encode", "decode"} /\ Len(input) > 0) => mixinRuns = 1

\* the result of process_blocks on the single block `bytes`
OneBlock(kind, bytes, secret, r, wd) ==
    fold_block(<<>>, processor(kind, <<word_at(bytes, 0, wd), word_at(bytes, 1, wd)>>,
                               secret, r, wd).block, wd)

\* C6: process_blocks takes the blocks in input order and its output is the
\* concatenation, in the same order, of what the processor gives for each
\* block alone; the output is as long as the input; with the word-swapping
\* processor the little-endian bytes of the two words of each block change
\* places ([0xff, 0xf0, 0xff, 0xf0] gives [0xf0, 0xff, 0xf0, 0xff]).
C6_BlockIndependence ==
    (pc \in {"blocks", "ok"}) =>
        /\ Len(output) = 2 * pos * BYTES(w)
        /\ pc = "ok" => Len(output) = Len(input)
        /\ \A k \in 0..(pos - 1) :
              BlockBytes(output, k, w) =
                  OneBlock(op, BlockBytes(input, k, w), key, round_count, w)
        /\ op = "swap" =>
              \A k \in 0..(pos - 1) : \A m \in 1..BYTES(w) :
                  /\ output[2 * k * BYTES(w) + m] = input[(2 * k + 1) * BYTES(w) + m]
                  /\ output[(2 * k + 1) * BYTES(w) + m] = input[2 * k * BYTES(w) + m]
        /\ (op = "swap" /\ pc = "ok" /\ w = 8 /\ input = <<255, 240, 255, 240>>)
              => output = <<240, 255, 240, 255>>

C6_Witness ==
    /\ pc = "ok" /\ op = "swap" /\ w = 8
    /\ input = <<255, 240, 255, 240>> /\ output = <<240, 255, 240, 255>>

C6_WitnessTwoBlocks ==
    /\ pc = "ok" /\ op = "encode" /\ pos = 2 /\ round_count >= 1
    /\ BlockBytes(input, 0, w) # BlockBytes(input, 1, w)

----------------------------------------------------------------------------
(* Properties of the key schedule, checked under SpecKey *)

\* ceil(b / u)
CeilDiv(n, u) == (n + u - 1) \div u

\* C3: for every key length and width the key schedule completes and
\* returns a table: no index is out of range, no remainder is by zero.
C3_KeyScheduleCompletes == kpc # "panic"

\* C4: the sequence collected for r has 2 * (r + 1) words, and so has the
\* table at every point of mixin up to and including its return.
C4_TableShape == kpc # "start" => Len(mixed_key) = 2 * (round_count + 1)

C4_Witness ==
    /\ kpc = "returned" /\ round_count = 2 /\ Len(key) = 3
    /\ Len(mixed_key) = 6

\* the first t words of the pseudo-random sequence
FirstWords(t, wd) == [k \in 1..t |-> (P(wd) + (k - 1) * Q(wd)) % (2 ^ wd)]

\* the loop of mixin is entered with A = B = 0, i = j = 0 and S the first
\* 2(r+1) pseudo-random words, and is left after 3 * max(t, c) iterations
C9_State ==
    LET t == 2 * (round_count + 1)
        c == Len(key_words)
    IN /\ (kpc = "loop" /\ iter = 0) =>
             /\ a = 0 /\ b = 0 /\ i = 0 /\ j = 0
             /\ mixed_key = FirstWords(t, w)
       /\ kpc = "loop" => iter <= 3 * Max(t, c)
       /\ kpc = "returned" => iter = 3 * Max(t, c)
       /\ (kpc = "returned" /\ key = TestKey /\ w = 8 /\ round_count = 1)
             => mixed_key = <<168, 6, 50, 92>>

\* one iteration: A = S[i] = rotl(S[i] + A + B, 3);
\* B = L[j] = rotl(L[j] + A + B, (A + B) mod w); i = (i+1) mod t; j = (j+1) mod c
C9_Iteration ==
    (kpc = "loop" /\ iter' = iter + 1) =>
        LET t == 2 * (round_count + 1)
            c == Len(key_words)
            A == rotate_left((mixed_key[i + 1] + a + b) % (2 ^ w), 3, w)
            B == rotate_left((key_words[j + 1] + A + b) % (2 ^ w), (A + b) % w, w)
        IN /\ i \in 0..(t - 1) /\ j \in 0..(c - 1)
           /\ a' = A /\ mixed_key' = [mixed_key EXCEPT ![i + 1] = A]
           /\ b' = B /\ key_words' = [key_words EXCEPT ![j + 1] = B]
           /\ i' = (i + 1) % t /\ j' = (j + 1) % c
           /\ i' \in 0..(t - 1) /\ j' \in 0..(c - 1)
           /\ kpc' = "loop"

\* C9: mixin starts from the first t = 2(r+1) pseudo-random words and the c
\* expanded key words with A = B = i = j = 0, every iteration it performs is
\* the reference iteration with i in 0..t-1 and j in 0..c-1, and it returns
\* S after exactly 3 * max(t, c) iterations; key bytes 0..127, w = 8, r = 1
\* give [168, 6, 50, 92].
C9_MixinReference == [](C9_State) /\ [][C9_Iteration]_vars

C9_Witness ==
    /\ kpc = "returned" /\ key = TestKey /\ w = 8 /\ round_count = 1
    /\ iter = 384 /\ mixed_key = <<168, 6, 50, 92>>

\* C10: expand_key_to_words returns exactly max(1, ceil(b / (w/8))) words for
\* every key length b and width w.
C10_ExpandedWordCount ==
    /\ ~(kpc = "panic" /\ index_secret >= 0)
    /\ kpc \in {"loop", "returned"}
          => Len(key_words) = Max(1, CeilDiv(Len(key), BYTES(w)))

\* expand_key_to_words has returned and the mixing loop has not yet run
ExpandReturned == kpc = "loop" /\ iter = 0

\* the little-endian integer of the u key bytes of word k (from 0); a byte
\* position past the end of the key counts as zero
RECURSIVE LittleEndianValue(_, _, _, _)
LittleEndianValue(secret, k, u, m) ==
    IF m >= u THEN 0
    ELSE (IF k * u + m + 1 <= Len(secret) THEN secret[k * u + m + 1] ELSE 0)
         + 256 * LittleEndianValue(secret, k, u, m + 1)

\* C11: when the key length is a multiple of w/8, expanded word k is the
\* little-endian integer of key bytes k*(w/8) .. k*(w/8)+(w/8)-1; for w = 8
\* the words are the key bytes, for w = 16 word k = key[2k] + 256 * key[2k+1].
C11_ExpansionByteOrder ==
    (ExpandReturned /\ Len(key) % BYTES(w) = 0) =>
        /\ \A k \in 0..(Len(key_words) - 1) :
              key_words[k + 1] = LittleEndianValue(key, k, BYTES(w), 0)
        /\ (w = 8 /\ Len(key) >= 1) => key_words = key
        /\ w = 16 => \A k \in 0..(Len(key_words) - 1) :
              key_words[k + 1] = key[2 * k + 1] + 256 * key[2 * k + 2]

C11_Witness ==
    /\ ExpandReturned /\ key = TestKey /\ w = 16
    /\ Len(key_words) = 64
    /\ key_words[1] = 256 /\ key_words[2] = 770 /\ key_words[50] = 25442

----------------------------------------------------------------------------
(* Properties of the block round function, checked under SpecBlock *)

\* RC5 encryption of (A, B) with table S (S[0] is S[1] here) and r rounds
RefEncode(A, B, S, r, wd) ==
    LET M == 2 ^ wd
        ab[n \in 0..r] ==
            IF n = 0 THEN <<(A + S[1]) % M, (B + S[2]) % M>>
            ELSE LET pa == ab[n - 1][1]
                     pb == ab[n - 1][2]
                     na == (rotate_left(bitxor(pa, pb), pb % wd, wd) + S[2 * n + 1]) % M
                     nb == (rotate_left(bitxor(pb, na), na % wd, wd) + S[2 * n + 2]) % M
                 IN <<na, nb>>
    IN ab[r]

\* C7: rc5_encode gives A = A + S[0], B = B + S[1], then for index 1..r
\* A = rotl(A xor B, B) + S[2 index], B = rotl(B xor A, A) + S[2 index + 1]
\* with the updated A; w = 16, r = 1, S = [0,1,2,3], (10,10) gives (2050,8231).
C7_EncodeReference ==
    bpc # "start" =>
        /\ cipher_block = RefEncode(block[1], block[2], key_table, round_count, w)
        /\ (w = 16 /\ round_count = 1 /\ key_table = <<0, 1, 2, 3>> /\ block = <<10, 10>>)
              => cipher_block = <<2050, 8231>>

C7_Witness ==
    /\ bpc = "encoded" /\ w = 16 /\ round_count = 1
    /\ key_table = <<0, 1, 2, 3>> /\ block = <<10, 10>>
    /\ cipher_block = <<2050, 8231>>

\* C8: for every width, round count, table of 2r+2 words and block,
\* rc5_decode of rc5_encode of the block is the block.
C8_DecodeInvertsEncode == bpc = "decoded" => plain_block = block

C8_Witness ==
    /\ bpc = "decoded" /\ round_count = 2 /\ key_table # RampTable(2)
    /\ cipher_block # block /\ plain_block = block

----------------------------------------------------------------------------
(* Word rotation on one word and one amount: word.rs rotate_word_left,     *)
(* rotate_word_right, and rotate_word_right on the left-rotated word.      *)

\* word.rs tests rotate 1, 2 and MAX; P is a word with an irregular pattern
RotateWords(wd) == {0, 1, 2, 10, P(wd), 2 ^ (wd - 1), Modulus(wd) - 1}

\* amounts below, at and above the width, the largest word included
RotateAmounts(wd) == {0, 1, 3, wd - 1, wd, wd + 1, 5 * wd + 3, Modulus(wd) - 1}

InitRotate ==
    /\ w \in Widths
    /\ round_count = 0
    /\ key = <<>>
    /\ word \in RotateWords(w)
    /\ amount \in RotateAmounts(w)
    /\ rpc = "start" /\ rotated_left = 0 /\ rotated_right = 0 /\ restored = 0
    /\ IdleCodec /\ IdleKey /\ IdleBlock /\ IdleSequence

\* word.rotate_word_left(amount)
rotate_left_call ==
    /\ rpc = "start"
    /\ rotated_left' = rotate_word_left(word, amount, w)
    /\ rpc' = "left"
    /\ UNCHANGED <<w, round_count, key, word, amount, rotated_right, restored,
                   codecVars, keyVars, blockVars, seqVars>>

\* word.rotate_word_right(amount)
rotate_right_call ==
    /\ rpc = "left"
    /\ rotated_right' = rotate_word_right(word, amount, w)
    /\ rpc' = "right"
    /\ UNCHANGED <<w, round_count, key, word, amount, rotated_left, restored,
                   codecVars, keyVars, blockVars, seqVars>>

\* word.rotate_word_left(amount).rotate_word_right(amount)
rotate_back_call ==
    /\ rpc = "right"
    /\ restored' = rotate_word_right(rotated_left, amount, w)
    /\ rpc' = "back"
    /\ UNCHANGED <<w, round_count, key, word, amount, rotated_left, rotated_right,
                   codecVars, keyVars, blockVars, seqVars>>

NextRotate == rotate_left_call \/ rotate_right_call \/ rotate_back_call

SpecRotate == InitRotate /\ [][NextRotate]_vars

\* bit k of x
Bit(x, k) == (x \div (2 ^ k)) % 2

\* the word whose bit (k + m) mod wd is bit k of x, summed from bit k up
RECURSIVE MoveBits(_, _, _, _)
MoveBits(x, m, wd, k) ==
    IF k >= wd THEN 0
    ELSE Bit(x, k) * (2 ^ ((k + m) % wd)) + MoveBits(x, m, wd, k + 1)

\* rotation by m bits, 0 <= m < wd, bit by bit
RefRotateLeft(x, m, wd) == MoveBits(x, m, wd, 0)

RefRotateRight(x, m, wd) == MoveBits(x, (wd - m) % wd, wd, 0)

\* C12: rotate_word_left and rotate_word_right rotate by the amount modulo
\* w: the result is the bit rotation by n mod w and equals the result for
\* the amount n mod w (5w + 3 behaves as 3; 1 rotated left by the largest
\* word gives the top bit), and rotating right undoes rotating left.
C12_RotationModuloWidth ==
    /\ rpc \in {"left", "right", "back"} =>
          /\ rotated_left = RefRotateLeft(word, amount % w, w)
          /\ rotated_left = rotate_word_left(word, amount % w, w)
          /\ amount = 5 * w + 3 => rotated_left = RefRotateLeft(word, 3, w)
          /\ (word = 1 /\ amount = Modulus(w) - 1) => rotated_left = 2 ^ (w - 1)
    /\ rpc \in {"right", "back"} =>
          /\ rotated_right = RefRotateRight(word, amount % w, w)
          /\ rotated_right = rotate_word_right(word, amount % w, w)
    /\ rpc = "back" => restored = word

C12_Witness ==
    /\ rpc = "back" /\ w = 16 /\ word = 1 /\ amount = 65535
    /\ rotated_left = 32768 /\ rotated_right = 2 /\ restored = 1

----------------------------------------------------------------------------
(* The pseudo-random key sequence: word.rs PresudoRandomKeySequenceIterator *)
(* constructed by default(), advanced by next(), and constructed again.     *)

\* state after PresudoRandomKeySequenceIterator::default()
InitSequence ==
    /\ w \in Widths
    /\ round_count = 0
    /\ key = <<>>
    /\ next = P(w)
    /\ emitted = <<>>
    /\ previous = <<>>
    /\ IdleCodec /\ IdleKey /\ IdleBlock /\ IdleWord

\* faulty variant: the value is returned after Q has been added
iterator_next_returns_updated ==
    /\ Len(emitted) < MaxEmitted
    /\ emitted' = Append(emitted, wrapping_add(next, Q(w), w))
    /\ next' = wrapping_add(next, Q(w), w)
    /\ UNCHANGED <<w, round_count, key, previous, codecVars, keyVars, blockVars, wordVars>>

\* word.rs 114-118: Iterator::next returns the current value and adds Q
iterator_next ==
    /\ Len(emitted) < MaxEmitted
    /\ emitted' = Append(emitted, next)
    /\ next' = wrapping_add(next, Q(w), w)
    /\ UNCHANGED <<w, round_count, key, previous, codecVars, keyVars, blockVars, wordVars>>

\* word.rs 106-110: a new iterator is constructed and replaces the one in use
iterator_default ==
    /\ previous' = emitted
    /\ emitted' = <<>>
    /\ next' = P(w)
    /\ UNCHANGED <<w, round_count, key, codecVars, keyVars, blockVars, wordVars>>

NextSequence == iterator_next \/ iterator_default

SpecSequence == InitSequence /\ [][NextSequence]_vars

Min(x, y) == IF x <= y THEN x ELSE y

\* C13: the i-th value an iterator emits (i from 0) is (P + i * Q) mod 2^w,
\* the first being P; the field `next` is the value to emit next and the only
\* state, so a newly constructed iterator emits the same values as the one
\* before it; the sequence collected for the key schedule is the same one.
C13_PseudoRandomSequence ==
    /\ \A k \in 1..Len(emitted) :
          /\ emitted[k] = (P(w) + (k - 1) * Q(w)) % (2 ^ w)
          /\ emitted[k] = sequence_next(k - 1, w)
    /\ Len(emitted) >= 1 => emitted[1] = P(w)
    /\ next = (P(w) + Len(emitted) * Q(w)) % (2 ^ w)
    /\ \A k \in 1..Min(Len(emitted), Len(previous)) : emitted[k] = previous[k]

C13_Witness ==
    /\ w = 16 /\ Len(previous) >= 3 /\ Len(emitted) = 3
    /\ emitted = <<47073, 22040, 62543>>
    /\ next = 37510

====
